---- MODULE Spec2Model ----
(***************************************************************************)
(* FunctionMaxima<A, V> (src/function_maxima.h): a partial function A -> V *)
(* kept in a multiset ordered by argument, with the set of its local       *)
(* maxima kept in a set ordered by (value descending, argument ascending). *)
(*                                                                         *)
(* Iterators of `points` are positions 1..Len(points); Len(points)+1 is    *)
(* points.end().  Iterators of `maxima` are named by the element they      *)
(* designate.  A call is one action; its internal steps are recorded in    *)
(* `last.trace`.  A comparison on V may throw: the input k of a call says  *)
(* which comparison site of that call throws (0: none).                    *)
(***************************************************************************)
EXTENDS Integers, Sequences, FiniteSets, TLC

\* ---- bounds of the model ----
MaxArg == 3
MaxVal == 2
MaxTag == 1

\* ---- program constants ----
NUMBER_TO_ERASE == 5
NUMBER_TO_ROLLBACK == 4

\* ---- the template parameters A and V ----
\* A: arguments.  V: values ordered by `key'; `tag' tells apart two values
\* that are equivalent under operator< (the least key has several tags).
Args == 1..MaxArg
Vals == {v \in [key : 1..MaxVal, tag : 0..MaxTag] : v.tag = 0 \/ v.key = 1}

VLess(v1, v2) == v1.key < v2.key

NoVal == [key |-> 0, tag |-> 0]
NoPoint == [arg |-> 0, val |-> NoVal]

point_type(a, v) == [arg |-> a, val |-> v]

\* ---- comparators ----
compare_points(lhs, rhs) == lhs.arg < rhs.arg

\* compare_maxima ordering values upwards
compare_maxima_ascending(lhs, rhs) ==
    IF VLess(lhs.val, rhs.val) THEN TRUE
    ELSE IF VLess(rhs.val, lhs.val) THEN FALSE
    ELSE lhs.arg < rhs.arg

\* compare_maxima breaking ties by the greater argument
compare_maxima_ties_descending(lhs, rhs) ==
    IF VLess(rhs.val, lhs.val) THEN TRUE
    ELSE IF VLess(lhs.val, rhs.val) THEN FALSE
    ELSE rhs.arg < lhs.arg

compare_maxima(lhs, rhs) ==
    IF VLess(rhs.val, lhs.val) THEN TRUE
    ELSE IF VLess(lhs.val, rhs.val) THEN FALSE
    ELSE lhs.arg < rhs.arg

\* ---- sequences as ordered containers ----
InsertAt(s, i, e) == SubSeq(s, 1, i - 1) \o <<e>> \o SubSeq(s, i, Len(s))

RemoveAt(s, i) == SubSeq(s, 1, i - 1) \o SubSeq(s, i + 1, Len(s))

End(s) == Len(s) + 1

\* first position at which the test b holds, or end
FirstPos(b) ==
    IF \E i \in 1..Len(b) : b[i]
    THEN CHOOSE i \in 1..Len(b) : b[i] /\ \A j \in 1..(i - 1) : ~b[j]
    ELSE End(b)

\* points.find answering with the lower bound, whatever its argument
points_find_lower_bound(pts, a) ==
    FirstPos([i \in 1..Len(pts) |-> ~(pts[i].arg < a)])

\* points.find(a): transparent lookup by argument
points_find(pts, a) ==
    LET lb == FirstPos([i \in 1..Len(pts) |-> ~(pts[i].arg < a)])
    IN  IF lb # End(pts) /\ ~(a < pts[lb].arg) THEN lb ELSE End(pts)

\* position at which multiset::insert puts a new element: the upper bound
points_insert_pos(pts, pt) ==
    FirstPos([i \in 1..Len(pts) |-> compare_points(pt, pts[i])])

\* maxima.find(p): position of the element equivalent to p under compare_maxima
maxima_find(mx, p) ==
    LET lb == FirstPos([i \in 1..Len(mx) |-> ~compare_maxima(mx[i], p)])
    IN  IF lb # End(mx) /\ ~compare_maxima(p, mx[lb]) THEN lb ELSE End(mx)

\* maxima.insert(p) of std::set: no effect when an equivalent element is there
maxima_insert(mx, p) ==
    LET lb == FirstPos([i \in 1..Len(mx) |-> ~compare_maxima(mx[i], p)])
    IN  IF lb # End(mx) /\ ~compare_maxima(p, mx[lb]) THEN mx
        ELSE InsertAt(mx, lb, p)

\* maxima.erase removing every element whose value is equivalent to e's
maxima_erase_by_value(mx, e) ==
    LET Keep(q) == VLess(q.val, e.val) \/ VLess(e.val, q.val)
    IN  SelectSeq(mx, Keep)

\* maxima.erase(iterator): removes the element the iterator designates
maxima_erase(mx, e) ==
    LET Keep(q) == q # e
    IN  SelectSeq(mx, Keep)

\* ---- iterator steps on `points` ----
\* Decrementing points.begin() is undefined; the red-black tree decrement
\* yields either the first node again or the header node (end).
PrevOfBeginOutcomes == {"begin", "end"}

prev(pts, u, p) ==
    IF p = 1 THEN (IF u = "begin" THEN 1 ELSE End(pts)) ELSE p - 1

next(pts, p) == p + 1

\* prev(p) == to_be_erased ? prev(prev(p)) : prev(p)
multi_prev(pts, u, p, to_be_erased) ==
    IF prev(pts, u, p) = to_be_erased
    THEN prev(pts, u, prev(pts, u, p))
    ELSE prev(pts, u, p)

\* whether evaluating multi_prev(p, to_be_erased) decrements points.begin()
multi_prev_steps_before_begin(pts, u, p, to_be_erased) ==
    \/ p = 1
    \/ prev(pts, u, p) = to_be_erased /\ prev(pts, u, p) = 1

\* multi_next that does not skip the point to be erased
multi_next_no_skip(pts, p, previous) ==
    IF p = End(pts) \/ next(pts, p) = End(pts) THEN End(pts)
    ELSE next(pts, p)

multi_next(pts, p, previous) ==
    IF p = End(pts) \/ next(pts, p) = End(pts) THEN End(pts)
    ELSE IF next(pts, p) = previous THEN next(pts, next(pts, p))
    ELSE next(pts, p)

multi_is_beginning(pts, u, p, previous) ==
    IF p = 1 THEN TRUE
    ELSE IF prev(pts, u, p) = previous /\ prev(pts, u, p) = 1 THEN TRUE
    ELSE FALSE

multi_is_ending(pts, p, previous) ==
    IF p = End(pts) - 1 THEN TRUE
    ELSE IF next(pts, p) = previous /\ next(pts, p) = End(pts) - 1 THEN TRUE
    ELSE FALSE

\* ---- the execution context of one call ----
\* pts, mx: the two containers; te/ie, tr/ir: to_erase/if_erase and
\* to_rollback/if_rollback; k: the number of the comparison site that throws
\* (0: none is left to throw); u: the outcome of decrementing begin();
\* thrown: an exception is propagating; trace: the steps taken so far.
SiteEquivalent == 1
SiteNeighbour == 2
SiteMaximaFind == 3
SiteMaximaInsert == 4

Note(c, ev, n) == [c EXCEPT !.trace = Append(@, <<ev, n>>)]

\* one comparison site on V: it throws when it is the k-th of the call
Tick(c, site) ==
    IF c.k = 1
    THEN [c EXCEPT !.thrown = TRUE, !.k = 0, !.trace = Append(@, <<"throw", site>>)]
    ELSE [c EXCEPT !.k = IF @ > 1 THEN @ - 1 ELSE 0,
                   !.trace = Append(@, <<"cmp", site>>)]

\* a lookup or insertion in `maxima` compares values unless the set is empty
TickMaxima(c, site) == IF c.mx = <<>> THEN c ELSE Tick(c, site)

\* clear_erase stopping one slot short
clear_erase_keeps_last(c) ==
    [c EXCEPT !.ie = [i \in 0..(NUMBER_TO_ERASE - 1) |->
                         IF i = NUMBER_TO_ERASE - 1 THEN @[i] ELSE FALSE]]

clear_erase(c) == [c EXCEPT !.ie = [i \in 0..(NUMBER_TO_ERASE - 1) |-> FALSE]]

clear_rollback(c) == [c EXCEPT !.ir = [i \in 0..(NUMBER_TO_ROLLBACK - 1) |-> FALSE]]

RECURSIVE rollback_from(_, _)
rollback_from(c, i) ==
    IF i >= NUMBER_TO_ROLLBACK THEN c
    ELSE IF c.ir[i]
         THEN rollback_from(Note([c EXCEPT !.mx = maxima_erase(@, c.tr[i])],
                                 "undo_insert", i), i + 1)
         ELSE rollback_from(c, i + 1)

\* rollback_maxima starting after slot 1
rollback_maxima_from_slot_2(c) == rollback_from(c, 2)

rollback_maxima(c) == rollback_from(c, 0)

RECURSIVE erase_from(_, _)
erase_from(c, i) ==
    IF i >= NUMBER_TO_ERASE THEN c
    ELSE IF c.ie[i]
         THEN erase_from(Note([c EXCEPT !.mx = maxima_erase(@, c.te[i])],
                              "apply_erase", i), i + 1)
         ELSE erase_from(c, i + 1)

erase_from_maxima(c) == erase_from(c, 0)

\* ---- classification of one point ----
\* the result r of a call together with the context c it leaves
Ret(c, r) == [c |-> c, r |-> r]

\* the value of a singleton set: The({e(x) : x \in {d}}) is e(d)
The(S) == CHOOSE x \in S : TRUE

\* greater_than_next asking for a strictly smaller successor
greater_than_next_strict(c, p, previous) ==
    IF multi_is_ending(c.pts, p, previous) THEN Ret(c, TRUE)
    ELSE Ret(Tick(c, SiteNeighbour),
             VLess(c.pts[multi_next(c.pts, p, previous)].val, c.pts[p].val))

greater_than_next(c, p, previous) ==
    IF multi_is_ending(c.pts, p, previous) THEN Ret(c, TRUE)
    ELSE Ret(Tick(c, SiteNeighbour),
             ~VLess(c.pts[p].val, c.pts[multi_next(c.pts, p, previous)].val))

greater_than_prev(c, p, previous) ==
    IF multi_is_beginning(c.pts, c.u, p, previous) THEN Ret(c, TRUE)
    ELSE Ret(Tick(IF multi_prev_steps_before_begin(c.pts, c.u, p, previous)
                  THEN Note(c, "prev_of_begin", 0) ELSE c,
                  SiteNeighbour),
             ~VLess(c.pts[p].val, c.pts[multi_prev(c.pts, c.u, p, previous)].val))

is_maximum(c, p, previous) ==
    The({ IF g.c.thrown \/ ~g.r THEN g ELSE greater_than_next(g.c, p, previous) :
          g \in {greater_than_prev(c, p, previous)} })

present_in_maxima_set(c, pt) ==
    Ret(TickMaxima(c, SiteMaximaFind), maxima_find(c.mx, pt) # End(c.mx))

\* the insertion branch not setting if_rollback[i]
stage_insertion_unflagged(c, pt, i) ==
    The({ IF c1.thrown THEN c1
          ELSE Note([c1 EXCEPT !.mx = maxima_insert(@, pt), !.tr[i] = pt],
                    "insert", i) :
          c1 \in {TickMaxima(c, SiteMaximaInsert)} })

\* to_rollback[i] = maxima.insert(*it).first; if_rollback[i] = true
stage_insertion(c, pt, i) ==
    The({ IF c1.thrown THEN c1
          ELSE Note([c1 EXCEPT !.mx = maxima_insert(@, pt),
                               !.tr[i] = pt, !.ir[i] = TRUE], "insert", i) :
          c1 \in {TickMaxima(c, SiteMaximaInsert)} })

\* to_erase[i] = the iterator `found'; if_erase[i] = true, unless it is end
mark_for_erase(c, found, i) ==
    IF found # End(c.mx)
    THEN Note([c EXCEPT !.te[i] = c.mx[found], !.ie[i] = TRUE], "record_erase", i)
    ELSE c

\* the removal branch erasing from maxima at once
record_removal_immediate(c, pt, i) ==
    The({ IF c1.thrown THEN c1
          ELSE Note([mark_for_erase(c1, maxima_find(c1.mx, pt), i)
                         EXCEPT !.mx = maxima_erase(@, pt)], "apply_erase", i) :
          c1 \in {TickMaxima(c, SiteMaximaFind)} })

\* to_erase[i] = maxima.find(pt); if_erase[i] = true
record_removal(c, pt, i) ==
    The({ IF c1.thrown THEN c1 ELSE mark_for_erase(c1, maxima_find(c1.mx, pt), i) :
          c1 \in {TickMaxima(c, SiteMaximaFind)} })

conditional_add_new_maximum(c, it, i, previous) ==
    IF c.thrown THEN c
    ELSE IF it = End(c.pts) \/ it = previous THEN c
    ELSE The({
        IF m.c.thrown THEN m.c
        ELSE The({
            IF pr.c.thrown THEN pr.c
            ELSE IF m.r
                 THEN (IF ~pr.r THEN stage_insertion(pr.c, c.pts[it], i) ELSE pr.c)
                 ELSE (IF pr.r THEN record_removal(pr.c, c.pts[it], i) ELSE pr.c) :
            pr \in {present_in_maxima_set(m.c, c.pts[it])} }) :
        m \in {is_maximum(c, it, previous)} })

\* equivalent comparing the two values for identity
equivalent_identical(c, v1, v2) == Ret(Tick(c, SiteEquivalent), v1 = v2)

\* equivalent without the second comparison
equivalent_one_sided(c, v1, v2) == Ret(Tick(c, SiteEquivalent), ~VLess(v1, v2))

equivalent(c, v1, v2) ==
    The({ IF c1.thrown \/ VLess(v1, v2) THEN Ret(c1, FALSE)
          ELSE Ret(Tick(c1, SiteEquivalent), ~VLess(v2, v1)) :
          c1 \in {Tick(c, SiteEquivalent)} })

\* ---- custom_insert: the body of set_value ----
\* if(it != points.begin()) conditional_add_new_maximum(multi_prev(it, previous), 3, previous)
\* the left neighbour recorded in the slot of the right neighbour
custom_insert_left_in_slot_2(c, it, previous) ==
    IF c.thrown \/ it = 1 THEN c
    ELSE conditional_add_new_maximum(
             IF multi_prev_steps_before_begin(c.pts, c.u, it, previous)
             THEN Note(c, "prev_of_begin", 0) ELSE c,
             multi_prev(c.pts, c.u, it, previous), 2, previous)

custom_insert_left(c, it, previous) ==
    IF c.thrown \/ it = 1 THEN c
    ELSE conditional_add_new_maximum(
             IF multi_prev_steps_before_begin(c.pts, c.u, it, previous)
             THEN Note(c, "prev_of_begin", 0) ELSE c,
             multi_prev(c.pts, c.u, it, previous), 3, previous)

\* the lookup made for the new point, which follows the superseded one
custom_insert_superseded_finds_new(c, previous, found) ==
    IF c.thrown \/ ~found THEN c
    ELSE The({
        IF cf.thrown THEN cf
        ELSE Note([mark_for_erase(cf, maxima_find(cf.mx, cf.pts[previous + 1]), 4)
                       EXCEPT !.pts = RemoveAt(@, previous)], "points_erase", 0) :
        cf \in {TickMaxima(c, SiteMaximaFind)} })

\* the superseded point erased from `points` only
custom_insert_superseded_keeps_maximum(c, previous, found) ==
    IF c.thrown \/ ~found THEN c
    ELSE The({
        IF cf.thrown THEN cf
        ELSE Note([cf EXCEPT !.pts = RemoveAt(@, previous)], "points_erase", 0) :
        cf \in {TickMaxima(c, SiteMaximaFind)} })

\* if(found) { ... to_erase[4] = temp ... points.erase(previous); }
custom_insert_superseded(c, previous, found) ==
    IF c.thrown \/ ~found THEN c
    ELSE The({
        IF cf.thrown THEN cf
        ELSE Note([mark_for_erase(cf, maxima_find(cf.mx, cf.pts[previous]), 4)
                       EXCEPT !.pts = RemoveAt(@, previous)], "points_erase", 0) :
        cf \in {TickMaxima(c, SiteMaximaFind)} })

\* the try block of custom_insert, entered with the new point at `it`
custom_insert_try(c1, it, previous, found) ==
    custom_insert_superseded(
        custom_insert_left(
            conditional_add_new_maximum(
                conditional_add_new_maximum(c1, it, 1, previous),
                multi_next(c1.pts, it, previous), 2, previous),
            it, previous),
        previous, found)

\* the handler of custom_insert leaving the new point in `points`
custom_insert_catch_keeps_point(c, it) ==
    clear_erase(clear_rollback(rollback_maxima(c)))

custom_insert_catch(c, it) ==
    clear_erase(clear_rollback(rollback_maxima(
        Note([c EXCEPT !.pts = RemoveAt(@, it)], "points_erase", 1))))

\* custom_insert from the insertion on: c is the context after the early
\* return was not taken, prev0 the result of points.find(a)
custom_insert_new_point(c, pt, it, prev0) ==
    The({ IF c5.thrown THEN custom_insert_catch(c5, it)
          ELSE clear_erase(clear_rollback(erase_from_maxima(c5))) :
          c5 \in {custom_insert_try(
                      Note([c EXCEPT !.pts = InsertAt(@, it, pt)], "points_insert", 0),
                      it,
                      \* iterators stay valid across the insertion
                      IF prev0 = End(c.pts) THEN End(c.pts) + 1
                      ELSE IF prev0 >= it THEN prev0 + 1 ELSE prev0,
                      prev0 # End(c.pts))} })

custom_insert(c0, a, v) ==
    The({ IF prev0 = End(c0.pts)
          THEN custom_insert_new_point(c0, point_type(a, v),
                                       points_insert_pos(c0.pts, point_type(a, v)),
                                       prev0)
          ELSE The({ IF eq.c.thrown \/ eq.r THEN eq.c
                     ELSE custom_insert_new_point(
                              eq.c, point_type(a, v),
                              points_insert_pos(c0.pts, point_type(a, v)), prev0) :
                     eq \in {equivalent(c0, v, c0.pts[prev0].val)} }) :
          prev0 \in {points_find(c0.pts, a)} })

\* ---- erase ----
\* the try block of erase not recording the erased point's own entry
erase_try_keeps_maximum(c1, it, it2) ==
    The({ IF c2.thrown THEN c2
          ELSE conditional_add_new_maximum(
                   IF it = 1 THEN Note(c2, "prev_of_begin", 0) ELSE c2,
                   prev(c2.pts, c2.u, it), 3, it) :
          c2 \in {conditional_add_new_maximum(c1, next(c1.pts, it), 2, it)} })

\* the try block of erase, entered with the point to erase at `it`
erase_try(c1, it, it2) ==
    The({ IF c2.thrown THEN c2
          ELSE conditional_add_new_maximum(
                   IF it = 1 THEN Note(c2, "prev_of_begin", 0) ELSE c2,
                   prev(c2.pts, c2.u, it), 3, it) :
          c2 \in {conditional_add_new_maximum(mark_for_erase(c1, it2, 0),
                                              next(c1.pts, it), 2, it)} })

\* erase once the point is found at `it`
erase_found(c0, it) ==
    The({ IF cf.thrown THEN cf
          ELSE The({ IF c3.thrown
                     THEN clear_erase(clear_rollback(rollback_maxima(c3)))
                     ELSE clear_erase(clear_rollback(
                              Note([erase_from_maxima(c3)
                                        EXCEPT !.pts = RemoveAt(@, it)],
                                   "points_erase", 0))) :
                     c3 \in {erase_try(cf, it, maxima_find(cf.mx, cf.pts[it]))} }) :
          cf \in {TickMaxima(c0, SiteMaximaFind)} })

\* erase raising an error for an argument that has no value
erase_failing_when_absent(c0, a) ==
    IF points_find(c0.pts, a) = End(c0.pts) THEN [c0 EXCEPT !.thrown = TRUE]
    ELSE erase_found(c0, points_find(c0.pts, a))

erase(c0, a) ==
    IF points_find(c0.pts, a) = End(c0.pts) THEN c0
    ELSE erase_found(c0, points_find(c0.pts, a))

\* ---- value_at, size ----
\* value_at answering with the nearest point at or after a
value_at_nearest(pts, a) ==
    LET res_it == FirstPos([i \in 1..Len(pts) |-> ~(pts[i].arg < a)])
    IN  IF res_it = End(pts) THEN [ok |-> FALSE, val |-> NoVal]
        ELSE [ok |-> TRUE, val |-> pts[res_it].val]

value_at(pts, a) ==
    LET res_it == points_find(pts, a)
    IN  IF res_it = End(pts) THEN [ok |-> FALSE, val |-> NoVal]
        ELSE [ok |-> TRUE, val |-> pts[res_it].val]

size(pts) == Len(pts)

\* ---- the state ----
\* points, maxima, to_erase, to_rollback, if_erase, if_rollback: the members of
\* FunctionMaxima.  last: the caller's record of the call that has just
\* returned or thrown (its arguments, its outcome, the containers as they
\* were when it was entered, and its steps); NoCall once the caller has
\* looked at it.  followed: the calls made since construction, as long as
\* they are the first calls of ScenarioCalls, each returned normally.
VARIABLES points, maxima, to_erase, to_rollback, if_erase, if_rollback, last,
          followed

NoCall == [op |-> "none", a |-> 0, v |-> NoVal, outcome |-> "ok",
           ret |-> NoVal, pts0 |-> <<>>, mx0 |-> <<>>, trace |-> <<>>]

vars == <<points, maxima, to_erase, to_rollback, if_erase, if_rollback, last,
          followed>>

\* the calls set_value(1,1), set_value(2,2), set_value(3,1), erase(2)
ScenarioCalls ==
    << [op |-> "set_value", a |-> 1, v |-> [key |-> 1, tag |-> 0]],
       [op |-> "set_value", a |-> 2, v |-> [key |-> 2, tag |-> 0]],
       [op |-> "set_value", a |-> 3, v |-> [key |-> 1, tag |-> 0]],
       [op |-> "erase", a |-> 2, v |-> NoVal] >>

\* the calls made are not, or no longer, the first calls of ScenarioCalls
OffScenario == <<[op |-> "none", a |-> 0, v |-> NoVal]>>

Follow(op, a, v, outcome) ==
    IF /\ followed # OffScenario
       /\ Len(followed) < Len(ScenarioCalls)
       /\ ScenarioCalls[Len(followed) + 1] = [op |-> op, a |-> a, v |-> v]
       /\ outcome = "ok"
    THEN Append(followed, [op |-> op, a |-> a, v |-> v])
    ELSE OffScenario

Init ==
    /\ points = <<>>
    /\ maxima = <<>>
    /\ to_erase = [i \in 0..(NUMBER_TO_ERASE - 1) |-> NoPoint]
    /\ to_rollback = [i \in 0..(NUMBER_TO_ROLLBACK - 1) |-> NoPoint]
    /\ if_erase = [i \in 0..(NUMBER_TO_ERASE - 1) |-> FALSE]
    /\ if_rollback = [i \in 0..(NUMBER_TO_ROLLBACK - 1) |-> FALSE]
    /\ last = NoCall
    /\ followed = <<>>

\* the context a call starts in
Enter(k, u) ==
    [pts |-> points, mx |-> maxima, te |-> to_erase, ie |-> if_erase,
     tr |-> to_rollback, ir |-> if_rollback, k |-> k, u |-> u,
     thrown |-> FALSE, trace |-> <<>>]

\* the number of comparison sites a run reached
Sites(c) == Cardinality({i \in 1..Len(c.trace) : c.trace[i][1] = "cmp"})

\* A slot of to_erase/to_rollback is read only under its flag (rollback_maxima,
\* erase_from_maxima): the content of a slot whose flag is false is not state.
Live(slots, flags) == [i \in DOMAIN slots |-> IF flags[i] THEN slots[i] ELSE NoPoint]

Leave(c, op, a, v) ==
    /\ points' = c.pts
    /\ maxima' = c.mx
    /\ to_erase' = Live(c.te, c.ie)
    /\ to_rollback' = Live(c.tr, c.ir)
    /\ if_erase' = c.ie
    /\ if_rollback' = c.ir
    /\ last' = [op |-> op, a |-> a, v |-> v,
                outcome |-> IF c.thrown THEN "throw" ELSE "ok",
                ret |-> NoVal, pts0 |-> points, mx0 |-> maxima,
                trace |-> c.trace]
    /\ followed' = Follow(op, a, v, IF c.thrown THEN "throw" ELSE "ok")

\* the outcomes of decrementing begin() that matter to a call: one stands
\* for both when the call does not decrement begin()
Outcomes(dry) ==
    IF \E i \in 1..Len(dry.trace) : dry.trace[i][1] = "prev_of_begin"
    THEN PrevOfBeginOutcomes ELSE {"begin"}

SetValue ==
    /\ last = NoCall
    /\ \E a \in Args, v \in Vals :
        \E dry \in {custom_insert(Enter(0, "begin"), a, v)} :
            \E u \in Outcomes(dry), k \in 0..Sites(dry) :
                \E c \in {custom_insert(Enter(k, u), a, v)} :
                    Leave(c, "set_value", a, v)

Erase ==
    /\ last = NoCall
    /\ \E a \in Args :
        \E dry \in {erase(Enter(0, "begin"), a)} :
            \E u \in Outcomes(dry), k \in 0..Sites(dry) :
                \E c \in {erase(Enter(k, u), a)} :
                    Leave(c, "erase", a, NoVal)

ValueAt ==
    /\ last = NoCall
    /\ \E a \in Args :
        /\ last' = [op |-> "value_at", a |-> a, v |-> NoVal,
                    outcome |-> IF value_at(points, a).ok THEN "ok" ELSE "invalid",
                    ret |-> value_at(points, a).val,
                    pts0 |-> points, mx0 |-> maxima, trace |-> <<>>]
        /\ UNCHANGED <<points, maxima, to_erase, to_rollback, if_erase, if_rollback,
                       followed>>

\* the caller has looked at the outcome of the call and goes on
Observed ==
    /\ last # NoCall
    /\ last' = NoCall
    /\ UNCHANGED <<points, maxima, to_erase, to_rollback, if_erase, if_rollback,
                   followed>>

Next == SetValue \/ Erase \/ ValueAt \/ Observed

Spec == Init /\ [][Next]_vars

\* ======================= properties =======================
SeqSet(s) == {s[i] : i \in 1..Len(s)}

Equiv(v1, v2) == ~VLess(v1, v2) /\ ~VLess(v2, v1)

Defined(pts, a) == \E i \in 1..Len(pts) : pts[i].arg = a

StoredAt(pts, a) == pts[CHOOSE i \in 1..Len(pts) : pts[i].arg = a].val

\* the point at position i is not less than each neighbour it has
IsLocalMaximum(pts, i) ==
    /\ i = 1 \/ ~VLess(pts[i].val, pts[i - 1].val)
    /\ i = Len(pts) \/ ~VLess(pts[i].val, pts[i + 1].val)

LocalMaxima(pts) == {pts[i] : i \in {j \in 1..Len(pts) : IsLocalMaximum(pts, j)}}

Happened(ev) == \E i \in 1..Len(last.trace) : last.trace[i][1] = ev

Unchanged == points = last.pts0 /\ maxima = last.mx0

\* C1: after any sequence of set_value and erase calls the maxima set is
\* exactly the set of stored points that are not less than either neighbour.
C1_MaximaAreTheLocalMaxima == SeqSet(maxima) = LocalMaxima(points)

\* a completed call that demoted a neighbour which stays in the store
C1_Witness ==
    /\ last.op \in {"set_value", "erase"}
    /\ last.outcome = "ok"
    /\ Len(points) = 3
    /\ \E p \in SeqSet(last.mx0) : p \in SeqSet(points) /\ p \notin SeqSet(maxima)
    /\ \E p \in SeqSet(maxima) : p \notin SeqSet(last.mx0)

\* C2: a set_value in which a comparison on V throws propagates the exception
\* and leaves the point sequence and the maxima sequence as they were.
C2_SetValueStrongGuarantee ==
    (last.op = "set_value" /\ Happened("throw"))
        => (last.outcome = "throw" /\ Unchanged)

\* a set_value that threw after it had staged an insertion into maxima
C2_Witness ==
    /\ last.op = "set_value"
    /\ last.outcome = "throw"
    /\ Happened("undo_insert")
    /\ Defined(last.pts0, last.a)

\* C3: an erase of a present argument in which a comparison on V throws
\* propagates the exception, keeps the point and leaves both sequences as
\* they were.
C3_EraseStrongGuarantee ==
    (last.op = "erase" /\ Happened("throw"))
        => /\ last.outcome = "throw"
           /\ Defined(points, last.a)
           /\ Unchanged

\* an erase that threw after it had staged the insertion of a neighbour
C3_Witness ==
    /\ last.op = "erase"
    /\ last.outcome = "throw"
    /\ Happened("undo_insert")

\* C4: set_value of a value equivalent to the stored one changes neither
\* size(), the points nor the maxima, and re-evaluates no neighbour.
C4_EquivalentSetValueIsNoOp ==
    (/\ last.op = "set_value"
     /\ last.outcome = "ok"
     /\ Defined(last.pts0, last.a)
     /\ Equiv(last.v, StoredAt(last.pts0, last.a)))
        => /\ Unchanged
           /\ size(points) = size(last.pts0)
           /\ \A i \in 1..Len(last.trace) : last.trace[i] = <<"cmp", SiteEquivalent>>

\* an equivalent value that is not the stored one was set among other points
C4_Witness ==
    /\ last.op = "set_value"
    /\ last.outcome = "ok"
    /\ Defined(last.pts0, last.a)
    /\ Equiv(last.v, StoredAt(last.pts0, last.a))
    /\ last.v # StoredAt(last.pts0, last.a)
    /\ Len(last.pts0) >= 2

\* C5: after a set_value(a, v) that does not throw, value_at(a) returns a
\* value equivalent to v.
C5_RoundTrip ==
    (last.op = "set_value" /\ last.outcome = "ok")
        => /\ value_at(points, last.a).ok
           /\ Equiv(value_at(points, last.a).val, last.v)

\* a value was overwritten by one that is not equivalent to it
C5_Witness ==
    /\ last.op = "set_value"
    /\ last.outcome = "ok"
    /\ Defined(last.pts0, last.a)
    /\ ~Equiv(last.v, StoredAt(last.pts0, last.a))
    /\ StoredAt(points, last.a) = last.v

\* C6: erase of an argument with no defined value does not fail and changes
\* neither the points, the maxima nor size().
C6_EraseAbsentChangesNothing ==
    (last.op = "erase" /\ ~Defined(last.pts0, last.a))
        => /\ last.outcome = "ok"
           /\ Unchanged
           /\ size(points) = size(last.pts0)

\* an absent argument below a stored one was erased
C6_Witness ==
    /\ last.op = "erase"
    /\ ~Defined(last.pts0, last.a)
    /\ \E i \in 1..Len(last.pts0) : last.a < last.pts0[i].arg
    /\ Len(last.mx0) >= 1

\* C7: value_at fails exactly when the argument has no defined value and
\* otherwise returns the stored value, it fails after a completed erase of
\* its argument, and it never changes the points or the maxima.
C7_ValueAt ==
    /\ last.op = "value_at"
        => /\ (last.outcome = "invalid") = ~Defined(last.pts0, last.a)
           /\ Defined(last.pts0, last.a)
                => (last.outcome = "ok" /\ last.ret = StoredAt(last.pts0, last.a))
           /\ Unchanged
    /\ (last.op = "erase" /\ last.outcome = "ok")
        => ~value_at(points, last.a).ok

\* value_at failed on an argument that lies below a stored one
C7_Witness ==
    /\ last.op = "value_at"
    /\ last.outcome = "invalid"
    /\ \E i \in 1..Len(points) : last.a < points[i].arg

\* C8: iteration over the maxima yields each maximum once, by value from the
\* greatest down and, among equivalent values, by ascending argument.
C8_MaximaOrder ==
    /\ \A i, j \in 1..Len(maxima) :
          i < j => /\ ~VLess(maxima[i].val, maxima[j].val)
                   /\ Equiv(maxima[i].val, maxima[j].val)
                        => maxima[i].arg < maxima[j].arg
    /\ \A p \in LocalMaxima(points) :
          Cardinality({i \in 1..Len(maxima) : maxima[i] = p}) = 1

\* the maximum of greater value comes first although its argument is greater
C8_Witness ==
    /\ last.outcome = "ok"
    /\ last.op \in {"set_value", "erase"}
    /\ Len(maxima) >= 2
    /\ maxima[1].arg > maxima[2].arg

\* C9: when a point is defined the maxima are not empty and the first one
\* carries the greatest value of the function at the smallest argument that
\* attains it.
C9_FirstMaximumIsGlobal ==
    Len(points) > 0
        => /\ Len(maxima) > 0
           /\ \A i \in 1..Len(points) :
                 /\ ~VLess(maxima[1].val, points[i].val)
                 /\ Equiv(points[i].val, maxima[1].val)
                      => maxima[1].arg <= points[i].arg

\* the greatest value is attained twice, and not at the first point
C9_Witness ==
    /\ Len(points) = 3
    /\ maxima[1].arg > points[1].arg
    /\ \E i \in 1..Len(points) :
          points[i].arg > maxima[1].arg /\ Equiv(points[i].val, maxima[1].val)

\* C10: after every call, returned or thrown, the points are strictly
\* ascending by argument, so one per argument, and size() is the number of
\* arguments with a defined value.
C10_OnePointPerArgument ==
    /\ \A i, j \in 1..Len(points) : i < j => points[i].arg < points[j].arg
    /\ size(points) = Cardinality({a \in Args : Defined(points, a)})

\* an overwrite threw while the store held two points with its argument
C10_Witness ==
    /\ last.op = "set_value"
    /\ last.outcome = "throw"
    /\ Defined(last.pts0, last.a)
    /\ Happened("points_insert")

\* C11: from the empty structure set_value(1,1), set_value(2,2),
\* set_value(3,1), erase(2) give in turn maxima [(1,1)]; points [(1,1),(2,2)]
\* and maxima [(2,2)]; points [(1,1),(2,2),(3,1)] and maxima [(2,2)]; points
\* [(1,1),(3,1)] and maxima [(1,1),(3,1)].
ScenarioPoint(a, key) == point_type(a, [key |-> key, tag |-> 0])

C11_Scenario ==
    /\ followed = SubSeq(ScenarioCalls, 1, 1)
        => /\ points = <<ScenarioPoint(1, 1)>>
           /\ maxima = <<ScenarioPoint(1, 1)>>
    /\ followed = SubSeq(ScenarioCalls, 1, 2)
        => /\ points = <<ScenarioPoint(1, 1), ScenarioPoint(2, 2)>>
           /\ maxima = <<ScenarioPoint(2, 2)>>
    /\ followed = SubSeq(ScenarioCalls, 1, 3)
        => /\ points = <<ScenarioPoint(1, 1), ScenarioPoint(2, 2), ScenarioPoint(3, 1)>>
           /\ maxima = <<ScenarioPoint(2, 2)>>
    /\ followed = ScenarioCalls
        => /\ points = <<ScenarioPoint(1, 1), ScenarioPoint(3, 1)>>
           /\ maxima = <<ScenarioPoint(1, 1), ScenarioPoint(3, 1)>>

\* the four calls were made and the last one, erase(2), has just returned
C11_Witness ==
    /\ followed = ScenarioCalls
    /\ last.op = "erase"
    /\ last.a = 2
    /\ last.outcome = "ok"

\* C12 as stated: erase(a) completes without raising or propagating any error,
\* for every state and every argument.
C12_EraseNeverFails == last.op = "erase" => last.outcome = "ok"

\* C12: erase(a) raises no error of its own; it fails only for a present
\* argument and only by propagating the exception of a comparison on V;
\* otherwise it completes.
C12_EraseFailsOnlyByComparison ==
    last.op = "erase"
        => /\ last.outcome \in {"ok", "throw"}
           /\ last.outcome = "throw"
                => /\ Defined(last.pts0, last.a)
                   /\ Happened("throw")
           /\ ~Happened("throw") => last.outcome = "ok"

\* erase of a present argument failed at its first lookup in maxima
C12_Witness ==
    /\ last.op = "erase"
    /\ last.outcome = "throw"
    /\ Defined(last.pts0, last.a)
    /\ last.trace = << <<"throw", SiteMaximaFind>> >>

\* p is the point next to argument a, on its left or on its right, among the
\* points of pts at other arguments
IsNeighbour(pts, a, p) ==
    \/ /\ p.arg < a
       /\ \A q \in SeqSet(pts) : q.arg < a => q.arg <= p.arg
    \/ /\ a < p.arg
       /\ \A q \in SeqSet(pts) : a < q.arg => p.arg <= q.arg

\* C13: a completed set_value(a, v) or erase(a) changes membership in the
\* maxima only for the point at a and for the two points next to a; every
\* other point is a maximum after the call iff it was one before.
C13_Locality ==
    (last.op \in {"set_value", "erase"} /\ last.outcome = "ok")
        => \A p \in SeqSet(last.pts0) \cup SeqSet(points) :
              (p.arg # last.a /\ ~IsNeighbour(last.pts0, last.a, p))
                  => (p \in SeqSet(maxima) <=> p \in SeqSet(last.mx0))

\* a call changed its neighbour's membership while a maximum further away,
\* of the same value as the point at a, stayed
C13_Witness ==
    /\ last.op \in {"set_value", "erase"}
    /\ last.outcome = "ok"
    /\ \E p \in SeqSet(points) :
          /\ IsNeighbour(last.pts0, last.a, p)
          /\ (p \in SeqSet(maxima)) # (p \in SeqSet(last.mx0))
    /\ \E p \in SeqSet(points), q \in SeqSet(last.mx0) :
          /\ p.arg # last.a
          /\ ~IsNeighbour(last.pts0, last.a, p)
          /\ p \in SeqSet(maxima)
          /\ q.arg = last.a
          /\ Equiv(q.val, p.val)

\* C14: within a call a removal from maxima is applied only after it was
\* recorded and after the last comparison on V of the call, so the call then
\* returns normally; before that only insertions of this call are undone.
C14_TwoPhase ==
    last.op \in {"set_value", "erase"}
        => \A i \in 1..Len(last.trace) :
              /\ last.trace[i][1] = "apply_erase"
                   => /\ last.outcome = "ok"
                      /\ \A j \in (i + 1)..Len(last.trace) :
                            last.trace[j][1] \notin {"cmp", "throw"}
                      /\ \E h \in 1..(i - 1) :
                            last.trace[h] = <<"record_erase", last.trace[i][2]>>
              /\ last.trace[i][1] = "undo_insert"
                   => \E h \in 1..(i - 1) :
                         last.trace[h] = <<"insert", last.trace[i][2]>>

\* a removal was recorded, comparisons followed, and then it was applied
C14_Witness ==
    /\ last.op \in {"set_value", "erase"}
    /\ \E i, j, k \in 1..Len(last.trace) :
          /\ i < j /\ j < k
          /\ last.trace[i][1] = "record_erase"
          /\ last.trace[j][1] = "cmp"
          /\ last.trace[k] = <<"apply_erase", last.trace[i][2]>>

\* C15: a completed set_value(a, v) with v not equivalent to a value stored
\* at a leaves one point at a, carrying v; the superseded point is in neither
\* points nor maxima; the other arguments keep their values; size() grows by
\* one if a was absent and stays if a was present.
C15_SetValueStoresThePoint ==
    (/\ last.op = "set_value"
     /\ last.outcome = "ok"
     /\ Defined(last.pts0, last.a) => ~Equiv(last.v, StoredAt(last.pts0, last.a)))
        => /\ Cardinality({i \in 1..Len(points) : points[i].arg = last.a}) = 1
           /\ point_type(last.a, last.v) \in SeqSet(points)
           /\ Defined(last.pts0, last.a)
                => LET old == point_type(last.a, StoredAt(last.pts0, last.a))
                   IN  old \notin SeqSet(points) /\ old \notin SeqSet(maxima)
           /\ \A b \in Args \ {last.a} :
                 /\ Defined(points, b) <=> Defined(last.pts0, b)
                 /\ Defined(points, b) => StoredAt(points, b) = StoredAt(last.pts0, b)
           /\ size(points) =
                 size(last.pts0) + (IF Defined(last.pts0, last.a) THEN 0 ELSE 1)

\* a maximum was overwritten by a value that is not equivalent to its own,
\* next to another point
C15_Witness ==
    /\ last.op = "set_value"
    /\ last.outcome = "ok"
    /\ Defined(last.pts0, last.a)
    /\ ~Equiv(last.v, StoredAt(last.pts0, last.a))
    /\ point_type(last.a, StoredAt(last.pts0, last.a)) \in SeqSet(last.mx0)
    /\ Len(points) >= 2

\* C16: a completed erase(a) of a present argument removes that point only:
\* a has no value afterwards, the point is not in maxima, size() is one less
\* and the other arguments keep their values.
C16_EraseRemovesThePoint ==
    (last.op = "erase" /\ last.outcome = "ok" /\ Defined(last.pts0, last.a))
        => /\ ~Defined(points, last.a)
           /\ point_type(last.a, StoredAt(last.pts0, last.a)) \notin SeqSet(maxima)
           /\ \A p \in SeqSet(maxima) : p.arg # last.a
           /\ size(points) = size(last.pts0) - 1
           /\ \A b \in Args \ {last.a} :
                 /\ Defined(points, b) <=> Defined(last.pts0, b)
                 /\ Defined(points, b) => StoredAt(points, b) = StoredAt(last.pts0, b)

\* a maximum with a point on either side was erased
C16_Witness ==
    /\ last.op = "erase"
    /\ last.outcome = "ok"
    /\ Defined(last.pts0, last.a)
    /\ point_type(last.a, StoredAt(last.pts0, last.a)) \in SeqSet(last.mx0)
    /\ \E p, q \in SeqSet(points) : p.arg < last.a /\ last.a < q.arg

\* ---- set_value recording the superseded point's entry at the start ----
\* The alternative order to custom_insert: the entry of the superseded point
\* is looked up in maxima before the new point is inserted; `was' is that
\* entry, NoPoint when there is none.
recorded_superseded(c, previous, found, was) ==
    IF c.thrown \/ ~found THEN c
    ELSE Note([(IF was # NoPoint
                THEN Note([c EXCEPT !.te[4] = was, !.ie[4] = TRUE], "record_erase", 4)
                ELSE c)
                   EXCEPT !.pts = RemoveAt(@, previous)], "points_erase", 0)

recorded_try(c1, it, previous, found, was) ==
    recorded_superseded(
        custom_insert_left(
            conditional_add_new_maximum(
                conditional_add_new_maximum(c1, it, 1, previous),
                multi_next(c1.pts, it, previous), 2, previous),
            it, previous),
        previous, found, was)

recorded_new_point(c, pt, it, prev0, was) ==
    The({ IF c5.thrown THEN custom_insert_catch(c5, it)
          ELSE clear_erase(clear_rollback(erase_from_maxima(c5))) :
          c5 \in {recorded_try(
                      Note([c EXCEPT !.pts = InsertAt(@, it, pt)], "points_insert", 0),
                      it,
                      IF prev0 = End(c.pts) THEN End(c.pts) + 1
                      ELSE IF prev0 >= it THEN prev0 + 1 ELSE prev0,
                      prev0 # End(c.pts),
                      was)} })

recorded_lookup(c, pt, it, prev0) ==
    The({ IF cf.thrown THEN cf
          ELSE recorded_new_point(
                   cf, pt, it, prev0,
                   IF maxima_find(cf.mx, cf.pts[prev0]) # End(cf.mx)
                   THEN cf.mx[maxima_find(cf.mx, cf.pts[prev0])] ELSE NoPoint) :
          cf \in {TickMaxima(c, SiteMaximaFind)} })

custom_insert_recorded(c0, a, v) ==
    The({ IF prev0 = End(c0.pts)
          THEN recorded_new_point(c0, point_type(a, v),
                                  points_insert_pos(c0.pts, point_type(a, v)),
                                  prev0, NoPoint)
          ELSE The({ IF eq.c.thrown \/ eq.r THEN eq.c
                     ELSE recorded_lookup(
                              eq.c, point_type(a, v),
                              points_insert_pos(c0.pts, point_type(a, v)), prev0) :
                     eq \in {equivalent(c0, v, c0.pts[prev0].val)} }) :
          prev0 \in {points_find(c0.pts, a)} })

\* C17: in an overwriting set_value the superseded point is found in maxima
\* after the staging iff it was a maximum when the call began, and looking it
\* up before or after the staging gives the same points and maxima, for every
\* state, argument, value and throwing comparison.
C17_RecordingOrderIsImmaterial ==
    /\ (/\ last.op = "set_value"
        /\ last.outcome = "ok"
        /\ Defined(last.pts0, last.a)
        /\ ~Equiv(last.v, StoredAt(last.pts0, last.a)))
          => (Happened("points_erase") /\
              ((\E i \in 1..Len(last.trace) : last.trace[i] = <<"record_erase", 4>>)
                 <=> point_type(last.a, StoredAt(last.pts0, last.a))
                        \in SeqSet(last.mx0)))
    /\ last = NoCall
          => \A a \in Args, v \in Vals, u \in PrevOfBeginOutcomes :
                \A k \in 0..Sites(custom_insert(Enter(0, u), a, v)) :
                   \A x \in {custom_insert(Enter(k, u), a, v)},
                      y \in {custom_insert_recorded(Enter(k, u), a, v)} :
                         x.pts = y.pts /\ x.mx = y.mx

\* a maximum was overwritten after this call had staged an insertion
C17_Witness ==
    /\ last.op = "set_value"
    /\ last.outcome = "ok"
    /\ Defined(last.pts0, last.a)
    /\ \E i, j \in 1..Len(last.trace) :
          /\ i < j
          /\ last.trace[i][1] = "insert"
          /\ last.trace[j] = <<"record_erase", 4>>

\* C18: between public calls every pending-removal and pending-insertion
\* flag is false, whichever way the last call exited, and a call removes from
\* maxima only entries that the same call recorded.
C18_BookkeepingEmptyBetweenCalls ==
    /\ \A i \in 0..(NUMBER_TO_ERASE - 1) : ~if_erase[i]
    /\ \A i \in 0..(NUMBER_TO_ROLLBACK - 1) : ~if_rollback[i]
    /\ \A j \in 1..Len(last.trace) :
          /\ last.trace[j][1] = "apply_erase"
                => \E i \in 1..(j - 1) : last.trace[i] = <<"record_erase", last.trace[j][2]>>
          /\ last.trace[j][1] = "undo_insert"
                => \E i \in 1..(j - 1) : last.trace[i] = <<"insert", last.trace[j][2]>>

\* a call that staged an insertion and recorded a removal left by an exception
C18_Witness ==
    /\ last.outcome = "throw"
    /\ Happened("record_erase")
    /\ Happened("undo_insert")
    /\ \A i \in 0..(NUMBER_TO_ERASE - 1) : ~if_erase[i]
    /\ \A i \in 0..(NUMBER_TO_ROLLBACK - 1) : ~if_rollback[i]

\* C19: during a set_value or erase call the navigation never steps to the
\* predecessor of the first point.  (A step past the end position or a read
\* of a position without a point would stop the evaluation of next, multi_next
\* and pts[p]; the decrement of points.begin() is recorded in the trace.)
C19_NavigationStaysInside ==
    ~Happened("prev_of_begin")

\* The two ways the decrement of points.begin() is reached: erasing the first
\* point (line 303) and overwriting it (line 235).  Neither statement holds.
C19_EraseFirstStepsBeforeBegin ==
    ~(/\ last.op = "erase"
      /\ last.outcome = "ok"
      /\ Len(last.pts0) >= 1
      /\ last.pts0[1].arg = last.a
      /\ Happened("prev_of_begin"))

C19_OverwriteFirstStepsBeforeBegin ==
    ~(/\ last.op = "set_value"
      /\ last.outcome = "ok"
      /\ Len(last.pts0) >= 1
      /\ last.pts0[1].arg = last.a
      /\ Happened("points_erase")
      /\ Happened("prev_of_begin"))

\* the positions of the trace at which a slot of the given buffer is written
Writes(ev) == {j \in 1..Len(last.trace) : last.trace[j][1] = ev}

\* C20: in one call at most NUMBER_TO_ERASE removals and at most
\* NUMBER_TO_ROLLBACK insertions are recorded, each in a slot inside its
\* buffer, and no slot of a buffer is written twice.
C20_SlotsInRangeAndWrittenOnce ==
    /\ Cardinality(Writes("record_erase")) <= NUMBER_TO_ERASE
    /\ Cardinality(Writes("insert")) <= NUMBER_TO_ROLLBACK
    /\ \A j \in Writes("record_erase") :
          /\ last.trace[j][2] \in 0..(NUMBER_TO_ERASE - 1)
          /\ \A i \in Writes("record_erase") :
                last.trace[i][2] = last.trace[j][2] => i = j
    /\ \A j \in Writes("insert") :
          /\ last.trace[j][2] \in 0..(NUMBER_TO_ROLLBACK - 1)
          /\ \A i \in Writes("insert") :
                last.trace[i][2] = last.trace[j][2] => i = j

\* a call that staged the new point and recorded both of its neighbours
C20_Witness ==
    /\ last.op = "set_value"
    /\ \E i \in Writes("insert") : last.trace[i][2] = 1
    /\ \E i \in Writes("record_erase") : last.trace[i][2] = 2
    /\ \E i \in Writes("record_erase") : last.trace[i][2] = 3

====
